---- MODULE Spec2Model ----
(***************************************************************************)
(* demosmith-mcp: the session store, the viewport (tab) registry and the   *)
(* evidence collector, modelled as the tool handlers of the MCP server.    *)
(*                                                                         *)
(* Every tool handler is an async function.  A handler runs without        *)
(* interruption from one await on the browser driver to the next; at such  *)
(* an await another tool call may run.  One action of the model is one of  *)
(* these uninterrupted segments.  An await on the driver either resolves   *)
(* or rejects; the model chooses.                                          *)
(***************************************************************************)
EXTENDS Integers, Sequences, FiniteSets, TLC

\* ------------------------------------------------------------------ bounds
MaxSessions == 2   \* session objects created by startSession
MaxSteps    == 2   \* steps recorded, all sessions together
MaxPageId   == 2   \* largest tab id handed out by newTab
MaxCalls    == 2   \* tool calls in flight at the same time

\* ------------------------------------------------------- encodings of null
NoSession == 0     \* currentSession = null
NoPage    == 0 - 1 \* session.page = undefined; also "no such tab"

Calls      == 1..MaxCalls
SessionIds == 1..MaxSessions

\* tools that delegate to executeWithEvidence
EweTools  == {"navigate", "click", "fill", "select", "scroll", "wait"}
\* tools that act first, then take the screenshot and record the step
PostTools == {"pressKey", "hover", "drag", "upload", "assert"}

\* One tool for each code path: navigate and fill differ from click, select,
\* scroll and wait only in the fn they hand to executeWithEvidence; drag and
\* upload have the shape of pressKey (the action, the screenshot, addStep).
SomeEweTools  == {"navigate", "fill"}
SomePostTools == {"pressKey", "hover", "assert"}

VARIABLES
  currentSession,  \* manager.ts: the module-level session pointer
  sessions,        \* the DemoSession objects created so far
  nsess,           \* how many session objects were created
  driver,          \* Playwright side of each session: browser, context, pages
  calls,           \* tool calls in flight: position and local variables
  serial,          \* TRUE: the client awaits each response before the next call
  gen              \* generators: the session handed to them, what they returned

vars == <<currentSession, sessions, nsess, driver, calls, serial, gen>>

\* ------------------------------------------------------------ data shapes
\* A DemoSession before startSession fills it in (types.ts, manager.ts).
NewSession(shot, trace, video) ==
  [ status           |-> "running",
    screenshotOnStep |-> shot,
    trace            |-> trace,
    video            |-> video,
    steps            |-> << >>,
    pages            |-> << >>,   \* keys of the Map, in insertion order
    activePageId     |-> 0,
    nextPageId       |-> 1,
    page             |-> NoPage,
    browser          |-> FALSE,   \* session.browser is set
    context          |-> FALSE ]  \* session.context is set

NoSessionObject ==
  [ NewSession(FALSE, FALSE, FALSE) EXCEPT !.status = "none" ]

\* What is left of a session object once it is garbage.
GoneSession ==
  [ NewSession(FALSE, FALSE, FALSE) EXCEPT !.status = "gone" ]

NewDriver ==
  [ browser |-> "none", context |-> "none", tracing |-> FALSE ]

IdleCall ==
  [ pc |-> "idle", tool |-> "none", session |-> NoSession, arg |-> 0,
    stepNum |-> 0, opt |-> << >>, ret |-> "none", events |-> << >>,
    result |-> "none" ]

\* A handler that returned or threw; the request handler of index.ts has
\* its answer and has not sent it yet.  end and start answer with a session.
DoneCall(tool, result, sess, events) ==
  [ IdleCall EXCEPT !.pc = "done", !.tool = tool, !.result = result,
                    !.events = events,
                    !.session = IF tool \in {"start", "end"} THEN sess
                                ELSE NoSession ]

\* ------------------------------------------------------------ manager.ts
\* requireSession(): the error it throws, or "ok".
requireSession(ss, cur) ==
  IF cur = NoSession THEN "NoActiveSession"
  ELSE IF ss[cur].page = NoPage THEN "PageNotAvailable"
  ELSE "ok"

\* addStep with the id taken from the step number the tool computed before
\* its awaits (the number in the screenshot's file name).
addStepNumberedEarly(ss, cur, step) ==
  [ss EXCEPT ![cur].steps =
     Append(@, [step EXCEPT !.id = IF step.screenshot > 0 THEN step.screenshot
                                   ELSE Len(ss[cur].steps) + 1])]

\* addStep with unshift in place of push.
addStepUnshift(ss, cur, step) ==
  [ss EXCEPT ![cur].steps =
     <<[step EXCEPT !.id = Len(ss[cur].steps) + 1]>> \o @]

\* addStep(step), after requireSession() succeeded: the step gets the next id
\* and is pushed on the log of the current session.
addStep(ss, cur, step) ==
  [ss EXCEPT ![cur].steps =
     Append(@, [step EXCEPT !.id = Len(ss[cur].steps) + 1])]

\* A step as the tools build it (id is assigned by addStep).
\* screenshot: 0 = no screenshotPath, n > 0 = assets/step-00n.png,
\* NoPage (-1) = a caller-chosen file name.
Step(action, success, error, screenshot) ==
  [ id |-> 0, action |-> action, success |-> success, error |-> error,
    screenshot |-> screenshot ]

\* Array.from(session.pages.keys()) after pages.delete(pageId)
remainingIds(pages, pageId) == SelectSeq(pages, LAMBDA k : k # pageId)

HasPage(pages, pageId) == \E i \in 1..Len(pages) : pages[i] = pageId

PageIds(pages) == { pages[i] : i \in 1..Len(pages) }

\* ------------------------------------------------------- call bookkeeping
InFlight == { c \in Calls : calls[c].pc # "idle" }

\* The answer of a handler that finished is sent before any other handler
\* runs: the send is a continuation of the very promise that settled.
NoneDone == \A d \in Calls : calls[d].pc # "done"

\* The await at which handler c is suspended settles now.
At(c, pc) == calls[c].pc = pc /\ NoneDone

\* A new call takes the lowest free slot; a serial client has none in flight.
MayBegin(c) ==
  /\ At(c, "idle")
  /\ \A d \in Calls : d < c => calls[d].pc # "idle"
  /\ serial => InFlight = {}

TotalSteps == LET RECURSIVE Sum(_)
                  Sum(s) == IF s = 0 THEN 0 ELSE Len(sessions[s].steps) + Sum(s - 1)
              IN Sum(MaxSessions)

\* Calls in flight that end with addStep.
Recording ==
  { c \in InFlight : calls[c].pc # "done" /\ calls[c].tool \notin {"start", "end"} }

\* Room in the log for one more step-recording call.
MayRecord == TotalSteps + Cardinality(Recording) < MaxSteps

\* startSession calls in flight that have not created their session object yet.
StartsPending ==
  { c \in InFlight : calls[c].pc # "done" /\ calls[c].ret = "start" }

\* The call in slot c ends now (returns or throws) with this result.
Finish(c, tool, result, arg, sess, events) ==
  calls' = [calls EXCEPT ![c] = DoneCall(tool, result, sess, events)]

\* addStep() at the end of a tool: it throws what requireSession() throws,
\* otherwise the step goes to the session that is current NOW.
RecordAndFinish(c, ss, tool, arg, success, error, screenshot, result, events) ==
  LET err == requireSession(ss, currentSession) IN
  IF err # "ok"
  THEN /\ sessions' = ss
       /\ Finish(c, tool, err, arg, calls[c].session, events)
  ELSE /\ sessions' = addStep(ss, currentSession,
                              Step(tool, success, error, screenshot))
       /\ Finish(c, tool, result, arg, calls[c].session,
                 Append(events, "addStep"))

\* ------------------------------------------------- browser.ts: closeBrowser
\* The await closeBrowser(session) reaches next, starting at stage `from`
\* (1 tracing.stop, 2 video.path, 3 context.close, 4 browser.close,
\* 5 fs.rename); "throw" when it dereferences a reference that endSession
\* has cleared meanwhile, "return" when nothing is left to do.
closeBrowser(ss, s, from, videoPath) ==
  IF from <= 1 /\ ss[s].trace THEN "cb_trace"
  ELSE IF from <= 2 /\ ss[s].video /\ ss[s].page # NoPage THEN "cb_video"
  ELSE IF from <= 3 THEN (IF ss[s].context THEN "cb_ctx" ELSE "throw")
  ELSE IF from <= 4 THEN (IF ss[s].browser THEN "cb_browser" ELSE "throw")
  ELSE IF from <= 5 /\ videoPath THEN "cb_rename"
  ELSE "return"

\* endSession that clears the registry and keeps browser, context and page.
endSessionClearPagesOnly(ss, s) ==
  [ss EXCEPT ![s].pages = << >>]

\* endSession() after closeBrowser returned: clear the references and the
\* session pointer.
endSessionClear(ss, s) ==
  [ss EXCEPT ![s].browser = FALSE, ![s].context = FALSE,
             ![s].page = NoPage, ![s].pages = << >>]

\* startSession() after the prior session is gone: build the session object
\* and call launchBrowser.
startSessionCreate(c, ss) ==
  /\ nsess' = nsess + 1
  /\ sessions' = [ss EXCEPT ![nsess + 1] =
                    NewSession(calls[c].opt[1], calls[c].opt[2], calls[c].opt[3])]
  /\ calls' = [calls EXCEPT ![c].pc = "st_launch", ![c].session = nsess + 1,
                            ![c].ret = "none", ![c].arg = 0,
                            ![c].opt = << >>]

\* endSession that returns the session and leaves the session pointer set.
endSessionReturnKeepPointer(c, ss) ==
  LET cleared == endSessionClear(ss, calls[c].session) IN
  /\ currentSession' = currentSession
  /\ IF calls[c].ret = "start"
     THEN startSessionCreate(c, cleared)
     ELSE /\ sessions' = cleared
          /\ nsess' = nsess
          /\ Finish(c, "end", "ok", 0, calls[c].session, << >>)

\* closeBrowser returned to endSession, which returns to its caller: the end
\* tool (which packages and answers) or startSession (which goes on).
endSessionReturn(c, ss) ==
  LET cleared == endSessionClear(ss, calls[c].session) IN
  /\ currentSession' = NoSession
  /\ IF calls[c].ret = "start"
     THEN startSessionCreate(c, cleared)
     ELSE /\ sessions' = cleared
          /\ nsess' = nsess
          /\ Finish(c, "end", "ok", 0, calls[c].session, << >>)

\* closeBrowser goes on from stage `from` with the sessions as they are now.
closeBrowserContinue(c, ss, from, videoPath) ==
  LET next == closeBrowser(ss, calls[c].session, from, videoPath) IN
  IF next = "return" THEN endSessionReturn(c, ss)
  ELSE /\ UNCHANGED <<currentSession, nsess>>
       /\ sessions' = ss
       /\ IF next = "throw"
          THEN Finish(c, calls[c].tool, "TypeError", 0, calls[c].session, << >>)
          ELSE /\ calls' = [calls EXCEPT ![c].pc = next,
                                         ![c].arg = IF videoPath THEN 1 ELSE 0]

\* endSession() up to its first await, for a non-null currentSession.
endSession(c, tool, opt) ==
  LET s  == currentSession
      ss == [sessions EXCEPT ![s].status = "completed"]
      me == [IdleCall EXCEPT !.tool = tool, !.session = s, !.opt = opt,
                             !.ret = tool]
      next == IF ~ss[s].context \/ ~ss[s].browser THEN "return"
              ELSE closeBrowser(ss, s, 1, FALSE)
  IN
  IF next = "return"
  THEN /\ currentSession' = NoSession
       /\ IF tool = "start"
          THEN /\ nsess' = nsess + 1
               /\ sessions' = [endSessionClear(ss, s) EXCEPT ![nsess + 1] =
                                 NewSession(opt[1], opt[2], opt[3])]
               /\ calls' = [calls EXCEPT ![c] =
                              [me EXCEPT !.pc = "st_launch", !.opt = << >>,
                                         !.session = nsess + 1, !.ret = "none"]]
          ELSE /\ sessions' = endSessionClear(ss, s)
               /\ nsess' = nsess
               /\ Finish(c, "end", "ok", 0, s, << >>)
  ELSE /\ sessions' = ss
       /\ calls' = [calls EXCEPT ![c] = [me EXCEPT !.pc = next]]
       /\ UNCHANGED <<currentSession, nsess>>

\* ------------------------------------------------------------ tool: start
\* start -> startSession(input) up to its first await.
BeginStart(c, shot, trace, video) ==
  /\ MayBegin(c)
  /\ nsess + Cardinality(StartsPending) < MaxSessions
  /\ IF currentSession # NoSession
     THEN endSession(c, "start", <<shot, trace, video>>)
     ELSE /\ nsess' = nsess + 1
          /\ sessions' = [sessions EXCEPT ![nsess + 1] =
                            NewSession(shot, trace, video)]
          /\ calls' = [calls EXCEPT ![c] =
                         [IdleCall EXCEPT !.pc = "st_launch", !.tool = "start",
                                          !.session = nsess + 1]]
          /\ UNCHANGED currentSession
  /\ UNCHANGED <<driver, serial, gen>>

\* await launchBrowser(options) settles.  "leak": chromium.launch resolved and
\* a later await of launchBrowser rejected.
StartLaunched(c, outcome) ==
  /\ At(c, "st_launch")
  /\ LET s == calls[c].session IN
     IF outcome = "ok"
     THEN /\ sessions' = [sessions EXCEPT ![s].browser = TRUE,
                                          ![s].context = TRUE,
                                          ![s].page = 0,
                                          ![s].pages = <<0>>]
          /\ driver' = [driver EXCEPT ![s] =
                          [NewDriver EXCEPT !.browser = "open",
                                            !.context = "open",
                                            !.tracing = sessions[s].trace]]
          /\ calls' = [calls EXCEPT ![c].pc = "st_goto"]
     ELSE /\ driver' = [driver EXCEPT ![s].browser =
                          IF outcome = "leak" THEN "open" ELSE "none"]
          /\ Finish(c, "start", "DriverRaised", 0, s, << >>)
          /\ UNCHANGED sessions
  /\ UNCHANGED <<currentSession, nsess, serial, gen>>

\* await page.goto(input.url) settles; on success the session becomes current.
StartNavigated(c, ok) ==
  /\ At(c, "st_goto")
  /\ currentSession' = IF ok THEN calls[c].session ELSE currentSession
  /\ Finish(c, "start", IF ok THEN "ok" ELSE "DriverRaised", 0,
            calls[c].session, << >>)
  /\ UNCHANGED <<sessions, nsess, driver, serial, gen>>

\* end that asks for the session with requireSession().
BeginEndRequire(c) ==
  /\ MayBegin(c)
  /\ IF currentSession = NoSession
     THEN /\ Finish(c, "end", "NoActiveSession", 0, NoSession, << >>)
          /\ UNCHANGED <<currentSession, sessions, nsess>>
     ELSE endSession(c, "end", << >>)
  /\ UNCHANGED <<driver, serial, gen>>

\* -------------------------------------------------------------- tool: end
\* end -> getSession(), endSession() up to its first await.
BeginEnd(c) ==
  /\ MayBegin(c)
  /\ IF currentSession = NoSession
     THEN /\ Finish(c, "end", "null", 0, NoSession, << >>)
          /\ UNCHANGED <<currentSession, sessions, nsess>>
     ELSE endSession(c, "end", << >>)
  /\ UNCHANGED <<driver, serial, gen>>

\* await session.context.tracing.stop(...) settles.
TraceStopped(c, ok) ==
  /\ At(c, "cb_trace")
  /\ IF ok
     THEN /\ driver' = [driver EXCEPT ![calls[c].session].tracing = FALSE]
          /\ closeBrowserContinue(c, sessions, 2, FALSE)
     ELSE /\ Finish(c, calls[c].tool, "DriverRaised", 0, calls[c].session, << >>)
          /\ UNCHANGED <<currentSession, sessions, nsess, driver>>
  /\ UNCHANGED <<serial, gen>>

\* await video.path() settles.
VideoPathRead(c, ok) ==
  /\ At(c, "cb_video")
  /\ IF ok
     THEN closeBrowserContinue(c, sessions, 3, TRUE)
     ELSE /\ Finish(c, calls[c].tool, "DriverRaised", 0, calls[c].session, << >>)
          /\ UNCHANGED <<currentSession, sessions, nsess>>
  /\ UNCHANGED <<driver, serial, gen>>

\* await session.context.close() settles.
ContextClosed(c, ok) ==
  /\ At(c, "cb_ctx")
  /\ IF ok
     THEN /\ driver' = [driver EXCEPT ![calls[c].session].context = "closed",
                                      ![calls[c].session].tracing = FALSE]
          /\ closeBrowserContinue(c, sessions, 4, calls[c].arg = 1)
     ELSE /\ Finish(c, calls[c].tool, "DriverRaised", 0, calls[c].session, << >>)
          /\ UNCHANGED <<currentSession, sessions, nsess, driver>>
  /\ UNCHANGED <<serial, gen>>

\* await session.browser.close() settles.
BrowserClosed(c, ok) ==
  /\ At(c, "cb_browser")
  /\ IF ok
     THEN /\ driver' = [driver EXCEPT ![calls[c].session].browser = "closed",
                                      ![calls[c].session].context = "closed",
                                      ![calls[c].session].tracing = FALSE]
          /\ closeBrowserContinue(c, sessions, 5, calls[c].arg = 1)
     ELSE /\ Finish(c, calls[c].tool, "DriverRaised", 0, calls[c].session, << >>)
          /\ UNCHANGED <<currentSession, sessions, nsess, driver>>
  /\ UNCHANGED <<serial, gen>>

\* await fs.rename(videoPath, demo.webm) settles; a rejection is swallowed.
VideoRenamed(c) ==
  /\ At(c, "cb_rename")
  /\ closeBrowserContinue(c, sessions, 6, TRUE)
  /\ UNCHANGED <<driver, serial, gen>>

\* executeWithEvidence that calls fn() first and takes no screenshot before.
executeWithEvidenceActFirst(c, tool) ==
  LET err == requireSession(sessions, currentSession)
      s   == currentSession
  IN
  IF err # "ok"
  THEN Finish(c, tool, err, 0, currentSession, << >>)
  ELSE /\ calls' = [calls EXCEPT ![c] =
                      [IdleCall EXCEPT !.pc = "ewe_fn", !.tool = tool,
                         !.session = s, !.events = <<"fn">>,
                         !.stepNum = IF sessions[s].screenshotOnStep
                                     THEN Len(sessions[s].steps) + 1 ELSE 0]]

\* ------------------------------------------- collector.ts: executeWithEvidence
\* navigate, click, fill, select, scroll, wait: requireSession() in the tool,
\* then executeWithEvidence up to its first await: the screenshot when
\* screenshotOnStep is set, fn() otherwise.
executeWithEvidence(c, tool) ==
  LET err == requireSession(sessions, currentSession)
      s   == currentSession
  IN
  IF err # "ok"
  THEN Finish(c, tool, err, 0, currentSession, << >>)
  ELSE /\ calls' = [calls EXCEPT ![c] =
                      IF sessions[s].screenshotOnStep
                      THEN [IdleCall EXCEPT !.pc = "ewe_shot", !.tool = tool,
                              !.session = s,
                              !.stepNum = Len(sessions[s].steps) + 1]
                      ELSE [IdleCall EXCEPT !.pc = "ewe_fn", !.tool = tool,
                              !.session = s, !.events = <<"fn">>]]

BeginEwe(c, tool) ==
  /\ MayBegin(c)
  /\ MayRecord
  /\ executeWithEvidence(c, tool)
  /\ UNCHANGED <<currentSession, sessions, nsess, driver, serial, gen>>

\* await page.screenshot(...) settles; fn() is called when it resolved, and
\* its rejection leaves executeWithEvidence before the try block.
EweScreenshotDone(c, ok) ==
  /\ At(c, "ewe_shot")
  /\ IF ok
     THEN /\ calls' = [calls EXCEPT ![c].pc = "ewe_fn",
                                    ![c].events = <<"screenshot", "fn">>]
     ELSE Finish(c, calls[c].tool, "ScreenshotRaised", 0, calls[c].session,
                 << >>)
  /\ UNCHANGED <<currentSession, sessions, nsess, driver, serial, gen>>

\* await fn() settles; the finally block calls addStep.
EweFnDone(c, ok) ==
  /\ At(c, "ewe_fn")
  /\ RecordAndFinish(c, sessions, calls[c].tool, calls[c].arg, ok,
                     IF ok THEN "" ELSE "ActionRaised", calls[c].stepNum,
                     IF ok THEN "ok" ELSE "ActionRaised",
                     Append(calls[c].events, "settled"))
  /\ UNCHANGED <<currentSession, nsess, driver, serial, gen>>

\* ------------------------- press-key.ts, hover.ts, drag.ts, upload.ts, assert.ts
\* requireSession(), then the action is awaited.
BeginPost(c, tool) ==
  /\ MayBegin(c)
  /\ MayRecord
  /\ LET err == requireSession(sessions, currentSession) IN
     IF err # "ok"
     THEN Finish(c, tool, err, 0, currentSession, << >>)
     ELSE /\ calls' = [calls EXCEPT ![c] =
                         [IdleCall EXCEPT !.pc = "post_fn", !.tool = tool,
                            !.session = currentSession,
                            !.events = <<"fn">>]]
  /\ UNCHANGED <<currentSession, sessions, nsess, driver, serial, gen>>

\* After the action: the screenshot if the captured session asks for one,
\* hover's removeCursor (hover with animated, its default), then addStep.
afterAction(c, passed, events) ==
  LET s == calls[c].session IN
  IF sessions[s].screenshotOnStep
  THEN /\ calls' = [calls EXCEPT ![c].pc = "post_shot",
                                 ![c].stepNum = Len(sessions[s].steps) + 1,
                                 ![c].opt = <<passed>>,
                                 ![c].events = events]
       /\ UNCHANGED sessions
  ELSE IF calls[c].tool = "hover"
  THEN /\ calls' = [calls EXCEPT ![c].pc = "post_cursor",
                                 ![c].opt = <<passed>>,
                                 ![c].events = events]
       /\ UNCHANGED sessions
  ELSE RecordAndFinish(c, sessions, calls[c].tool, calls[c].arg, passed,
                       IF passed THEN "" ELSE "AssertionFailed", 0, "ok", events)

\* The awaited action settles: "ok", "raise", or "failed" (an assertion
\* that does not hold).  Only assert catches the exception.
PostFnDone(c, outcome) ==
  /\ At(c, "post_fn")
  /\ outcome = "failed" => calls[c].tool = "assert"
  /\ IF outcome = "raise" /\ calls[c].tool # "assert"
     THEN /\ Finish(c, calls[c].tool, "ActionRaised", calls[c].arg,
                    calls[c].session, <<"fn", "settled">>)
          /\ UNCHANGED sessions
     ELSE afterAction(c, outcome = "ok", <<"fn", "settled">>)
  /\ UNCHANGED <<currentSession, nsess, driver, serial, gen>>

\* await page.screenshot(...) settles.
PostScreenshotDone(c, ok) ==
  /\ At(c, "post_shot")
  /\ IF ~ok
     THEN /\ Finish(c, calls[c].tool, "ScreenshotRaised", calls[c].arg,
                    calls[c].session, calls[c].events)
          /\ UNCHANGED sessions
     ELSE IF calls[c].tool = "hover"
     THEN /\ calls' = [calls EXCEPT ![c].pc = "post_cursor",
                          ![c].events = Append(@, "screenshot")]
          /\ UNCHANGED sessions
     ELSE RecordAndFinish(c, sessions, calls[c].tool, calls[c].arg, calls[c].opt[1],
                          IF calls[c].opt[1] THEN "" ELSE "AssertionFailed",
                          calls[c].stepNum, "ok",
                          Append(calls[c].events, "screenshot"))
  /\ UNCHANGED <<currentSession, nsess, driver, serial, gen>>

\* hover: await removeCursor(page) settles.
HoverCursorRemoved(c, ok) ==
  /\ At(c, "post_cursor")
  /\ IF ~ok
     THEN /\ Finish(c, calls[c].tool, "DriverRaised", calls[c].arg,
                    calls[c].session, calls[c].events)
          /\ UNCHANGED sessions
     ELSE RecordAndFinish(c, sessions, calls[c].tool, calls[c].arg, TRUE, "",
                          calls[c].stepNum, "ok", calls[c].events)
  /\ UNCHANGED <<currentSession, nsess, driver, serial, gen>>

\* --------------------------------------- screenshot.ts, collector.takeScreenshot
\* requireSession() twice, the file name, then page.screenshot is awaited.
\* named: the caller gave a file name.
BeginScreenshot(c, named) ==
  /\ MayBegin(c)
  /\ MayRecord
  /\ LET err == requireSession(sessions, currentSession) IN
     IF err # "ok"
     THEN Finish(c, "screenshot", err, 0, currentSession, << >>)
     ELSE /\ calls' = [calls EXCEPT ![c] =
                         [IdleCall EXCEPT !.pc = "ss_shot",
                            !.tool = "screenshot",
                            !.session = currentSession,
                            !.stepNum =
                               IF named THEN NoPage
                               ELSE Len(sessions[currentSession].steps) + 1]]
  /\ UNCHANGED <<currentSession, sessions, nsess, driver, serial, gen>>

\* await page.screenshot(...) settles; the tool catches a rejection and
\* records the step either way.
ScreenshotTaken(c, ok) ==
  /\ At(c, "ss_shot")
  /\ RecordAndFinish(c, sessions, "screenshot", 0, ok,
                     IF ok THEN "" ELSE "ScreenshotRaised",
                     IF ok THEN calls[c].stepNum ELSE 0,
                     IF ok THEN "ok" ELSE "failed",
                     IF ok THEN <<"screenshot">> ELSE << >>)
  /\ UNCHANGED <<currentSession, nsess, driver, serial, gen>>

\* ------------------------------------------------ manager.ts: tabs; tabs.ts
\* The tab tools after newTab / switchTab / closeTab returned: the screenshot
\* if the captured session asks for one, then addStep.  closeTabTool takes the
\* screenshot only if session.page is set.
afterTabOp(c, ss, arg) ==
  LET s == calls[c].session IN
  IF ss[s].screenshotOnStep
     /\ (calls[c].tool = "closeTab" => ss[s].page # NoPage)
  THEN /\ calls' = [calls EXCEPT ![c].pc = "tab_shot", ![c].arg = arg,
                                 ![c].stepNum = Len(ss[s].steps) + 1]
       /\ sessions' = ss
  ELSE RecordAndFinish(c, ss, calls[c].tool, arg, TRUE, "", 0, "ok", << >>)

\* await page.screenshot(...) of a tab tool settles.
TabScreenshotDone(c, ok) ==
  /\ At(c, "tab_shot")
  /\ IF ~ok
     THEN /\ Finish(c, calls[c].tool, "ScreenshotRaised", calls[c].arg,
                    calls[c].session, << >>)
          /\ UNCHANGED sessions
     ELSE RecordAndFinish(c, sessions, calls[c].tool, calls[c].arg, TRUE, "",
                          calls[c].stepNum, "ok", <<"screenshot">>)
  /\ UNCHANGED <<currentSession, nsess, driver, serial, gen>>

\* newTab with the id taken from the size of the registry.
newTabBySize(ss, s) ==
  [ss EXCEPT ![s].nextPageId = @ + 1,
             ![s].pages = Append(@, Len(ss[s].pages))]

\* newTab: the id is taken from the counter and the page is registered.
newTab(ss, s) ==
  [ss EXCEPT ![s].nextPageId = @ + 1,
             ![s].pages = Append(@, ss[s].nextPageId)]

\* newTabTool -> newTab(url) up to await session.context.newPage().
BeginNewTab(c, url) ==
  /\ MayBegin(c)
  /\ MayRecord
  /\ LET err == requireSession(sessions, currentSession)
         s   == currentSession
     IN
     IF err # "ok"
     THEN Finish(c, "newTab", err, 0, currentSession, << >>)
     ELSE IF ~sessions[s].context
     THEN Finish(c, "newTab", "ContextNotAvailable", 0, currentSession, << >>)
     ELSE /\ sessions[s].nextPageId
               + Cardinality({ d \in Calls : calls[d].pc = "nt_newPage" })
               <= MaxPageId
          /\ calls' = [calls EXCEPT ![c] =
                         [IdleCall EXCEPT !.pc = "nt_newPage", !.tool = "newTab",
                            !.session = s, !.opt = <<url>>]]
  /\ UNCHANGED <<currentSession, sessions, nsess, driver, serial, gen>>

\* await session.context.newPage() settles; with a url, page.goto is awaited.
NewPageOpened(c, ok) ==
  /\ At(c, "nt_newPage")
  /\ IF ~ok
     THEN /\ Finish(c, "newTab", "DriverRaised", 0, calls[c].session, << >>)
          /\ UNCHANGED sessions
     ELSE LET s  == calls[c].session
              id == sessions[s].nextPageId
          IN
          IF calls[c].opt[1]
          THEN /\ sessions' = newTab(sessions, s)
               /\ calls' = [calls EXCEPT ![c].pc = "nt_goto", ![c].arg = id,
                                         ![c].opt = << >>]
          ELSE afterTabOp(c, newTab(sessions, s), id)
  /\ UNCHANGED <<currentSession, nsess, driver, serial, gen>>

\* await page.goto(url) of the new tab settles.
NewTabNavigated(c, ok) ==
  /\ At(c, "nt_goto")
  /\ IF ~ok
     THEN /\ Finish(c, "newTab", "DriverRaised", calls[c].arg,
                    calls[c].session, << >>)
          /\ UNCHANGED sessions
     ELSE afterTabOp(c, sessions, calls[c].arg)
  /\ UNCHANGED <<currentSession, nsess, driver, serial, gen>>

\* switchTab without the lookup of pageId in the registry.
switchTabErrorNoLookup(ss, cur, pageId) == requireSession(ss, cur)

\* switchTab(pageId) up to await page.bringToFront(): the error it throws, or
\* "ok" and the active pointer and page of the current session are set.
\* pageId = NoPage stands for remainingIds[0] of an empty array.
switchTabError(ss, cur, pageId) ==
  IF requireSession(ss, cur) # "ok" THEN requireSession(ss, cur)
  ELSE IF ~HasPage(ss[cur].pages, pageId) THEN "TabNotFound"
  ELSE "ok"

switchTab(ss, cur, pageId) ==
  [ss EXCEPT ![cur].activePageId = pageId, ![cur].page = pageId]

\* switchTabTool -> switchTab(pageId) up to await page.bringToFront().
BeginSwitchTab(c, pageId) ==
  /\ MayBegin(c)
  /\ MayRecord
  /\ LET err == switchTabError(sessions, currentSession, pageId) IN
     IF err # "ok"
     THEN /\ Finish(c, "switchTab", err, pageId, currentSession, << >>)
          /\ UNCHANGED sessions
     ELSE /\ sessions' = switchTab(sessions, currentSession, pageId)
          /\ calls' = [calls EXCEPT ![c] =
                         [IdleCall EXCEPT !.pc = "sw_front", !.tool = "switchTab",
                            !.session = currentSession, !.arg = pageId]]
  /\ UNCHANGED <<currentSession, nsess, driver, serial, gen>>

\* await page.bringToFront() settles, in switchTabTool or inside closeTab.
BroughtToFront(c, ok) ==
  /\ At(c, "sw_front")
  /\ IF ~ok
     THEN /\ Finish(c, calls[c].tool, "DriverRaised", calls[c].arg,
                    calls[c].session, << >>)
          /\ UNCHANGED sessions
     ELSE afterTabOp(c, sessions, calls[c].arg)
  /\ UNCHANGED <<currentSession, nsess, driver, serial, gen>>

\* closeTab without the check for the last tab.
closeTabErrorNoLastCheck(ss, cur, pageId) ==
  IF requireSession(ss, cur) # "ok" THEN requireSession(ss, cur)
  ELSE IF ~HasPage(ss[cur].pages, pageId) THEN "TabNotFound"
  ELSE "ok"

\* closeTab(pageId) up to await page.close(): the error it throws, or "ok".
closeTabError(ss, cur, pageId) ==
  IF requireSession(ss, cur) # "ok" THEN requireSession(ss, cur)
  ELSE IF ~HasPage(ss[cur].pages, pageId) THEN "TabNotFound"
  ELSE IF Len(ss[cur].pages) = 1 THEN "CannotCloseLastTab"
  ELSE "ok"

\* closeTabTool -> closeTab(pageId) up to await page.close().
BeginCloseTab(c, pageId) ==
  /\ MayBegin(c)
  /\ MayRecord
  /\ LET err == closeTabError(sessions, currentSession, pageId) IN
     IF err # "ok"
     THEN Finish(c, "closeTab", err, pageId, currentSession, << >>)
     ELSE /\ calls' = [calls EXCEPT ![c] =
                         [IdleCall EXCEPT !.pc = "cl_close", !.tool = "closeTab",
                            !.session = currentSession, !.arg = pageId]]
  /\ UNCHANGED <<currentSession, sessions, nsess, driver, serial, gen>>

\* The id closeTab switches to: remainingIds[0].
closeTabTarget(pages) == IF pages = << >> THEN NoPage ELSE pages[1]

\* await page.close() settles: the entry is deleted from the captured
\* session's registry; if it was the active one, switchTab(remainingIds[0])
\* runs (on the session that is current now) up to its bringToFront.
TabClosed(c, ok) ==
  /\ At(c, "cl_close")
  /\ IF ~ok
     THEN /\ Finish(c, "closeTab", "DriverRaised", calls[c].arg,
                    calls[c].session, << >>)
          /\ UNCHANGED sessions
     ELSE LET s      == calls[c].session
              pageId == calls[c].arg
              ss     == [sessions EXCEPT ![s].pages = remainingIds(@, pageId)]
              target == closeTabTarget(ss[s].pages)
              err    == switchTabError(ss, currentSession, target)
          IN
          /\ IF sessions[s].activePageId # pageId
             THEN afterTabOp(c, ss, pageId)
             ELSE IF err # "ok"
             THEN /\ sessions' = ss
                  /\ Finish(c, "closeTab", err, pageId, s, << >>)
             ELSE /\ sessions' = switchTab(ss, currentSession, target)
                  /\ calls' = [calls EXCEPT ![c].pc = "sw_front"]
  /\ UNCHANGED <<currentSession, nsess, driver, serial, gen>>

\* ------------------------------------------------ index.ts: request handler
\* The handler's promise settles with the result or the caught error and
\* the response is sent.
\* A session object that neither the session pointer nor a handler in flight
\* refers to is garbage: nothing can read or write it any more.
Referenced(cs, cur) == {cur} \cup { cs[c].session : c \in Calls }

Collect(ss, cs, cur) ==
  [ s \in SessionIds |->
      IF s \in Referenced(cs, cur) \/ ss[s].status = "none"
      THEN ss[s] ELSE GoneSession ]

Respond(c) ==
  /\ calls[c].pc = "done"
  /\ calls' = [calls EXCEPT ![c] = IdleCall]
  /\ sessions' = Collect(sessions, calls', currentSession)
  /\ UNCHANGED <<currentSession, nsess, driver, serial, gen>>

\* ---------------------------------------------------- JavaScript strings
\* A string is a TLA+ string; a character is a string of length one.
charAt(s, i) == SubSeq(s, i, i)

substring(s, from, to) == SubSeq(s, from + 1, IF to > Len(s) THEN Len(s) ELSE to)

startsWith(s, prefix) ==
  Len(s) >= Len(prefix) /\ SubSeq(s, 1, Len(prefix)) = prefix

\* The characters the regular expression \s matches, of those used here.
Whitespace == {" ", "\n", "\t"}

Upper == "ABCDEFGHIJKLMNOPQRSTUVWXYZ"

Lower == "abcdefghijklmnopqrstuvwxyz"

RECURSIVE lowerChar(_, _)
lowerChar(ch, i) ==
  IF i > Len(Upper) THEN ch
  ELSE IF charAt(Upper, i) = ch THEN charAt(Lower, i)
  ELSE lowerChar(ch, i + 1)

RECURSIVE toLowerCase(_)
toLowerCase(s) ==
  IF s = "" THEN ""
  ELSE lowerChar(charAt(s, 1), 1) \o toLowerCase(SubSeq(s, 2, Len(s)))

\* s.split(/\s+/): a run of whitespace separates two pieces, so a string
\* that begins or ends with whitespace has an empty first or last piece.
RECURSIVE splitWhitespace(_, _, _, _)
splitWhitespace(s, i, piece, inRun) ==
  IF i > Len(s) THEN <<piece>>
  ELSE IF charAt(s, i) \in Whitespace
       THEN IF inRun THEN splitWhitespace(s, i + 1, piece, TRUE)
            ELSE <<piece>> \o splitWhitespace(s, i + 1, "", TRUE)
       ELSE splitWhitespace(s, i + 1, piece \o charAt(s, i), FALSE)

\* Number.prototype.toString for a natural number.
RECURSIVE toString(_)
toString(n) ==
  IF n < 10 THEN charAt("0123456789", n + 1)
  ELSE toString(n \div 10) \o charAt("0123456789", (n % 10) + 1)

RECURSIVE padStart(_, _, _)
padStart(s, width, fill) ==
  IF Len(s) >= width THEN s ELSE padStart(fill \o s, width, fill)

\* lines.join(sep)
RECURSIVE join(_, _)
join(lines, sep) ==
  IF lines = << >> THEN ""
  ELSE IF Len(lines) = 1 THEN lines[1]
  ELSE lines[1] \o sep \o join(Tail(lines), sep)

\* s.replace(pattern, by) with a one-character string pattern: the first
\* occurrence only.
RECURSIVE replaceFirst(_, _, _)
replaceFirst(s, pattern, by) ==
  IF s = "" THEN ""
  ELSE IF charAt(s, 1) = pattern THEN by \o SubSeq(s, 2, Len(s))
  ELSE charAt(s, 1) \o replaceFirst(SubSeq(s, 2, Len(s)), pattern, by)

\* ------------------------------------------------ types.ts: a recorded step
\* videoStartMs and videoEndMs of a step that has none.
undefined == 0 - 1

\* a ?? b for a number that may be absent.
Coalesce(a, b) == IF a = undefined THEN b ELSE a

\* details of a step: an absent string field is the empty string, which the
\* generators treat alike (both are falsy).
Details(url, value, direction) ==
  [url |-> url, value |-> value, direction |-> direction]

NoOutput == [kind |-> "none", value |-> ""]

\* The session the generators are given, the recorder's clock (milliseconds
\* since session.videoStartTime) and the last generator's return value.
NewGen ==
  [session |-> [title |-> "Sign Up", steps |-> << >>],
   now     |-> 0,
   out     |-> NoOutput]

\* ----------------------------------------- narration.ts: stepToNarration
\* A mask that also cuts a value of exactly 20 characters.
maskedValueInclusive(value) ==
  IF Len(value) >= 20 THEN substring(value, 0, 20) \o "..." ELSE value

maskedValue(value) ==
  IF Len(value) > 20 THEN substring(value, 0, 20) \o "..." ELSE value

stepToNarration(step) ==
  LET description == step.description
      details     == step.details
  IN CASE step.action = "navigate" ->
            IF details.url # ""
            THEN "First, let's navigate to the page. " \o description
            ELSE description
       [] step.action = "click" ->
            "Now, " \o (IF startsWith(toLowerCase(description), "click")
                        THEN description
                        ELSE "click to " \o toLowerCase(description))
       [] step.action = "fill" ->
            IF details.value # ""
            THEN description \o ". I'll type \"" \o maskedValue(details.value)
                 \o "\"."
            ELSE description
       [] step.action = "select" ->
            IF details.value # ""
            THEN description \o ". I'll select \"" \o details.value \o "\"."
            ELSE description
       [] step.action = "scroll" ->
            "Let me scroll "
            \o (IF details.direction # "" THEN details.direction ELSE "down")
            \o " to show you more."
       [] step.action = "wait" -> "I'll wait for the page to load."
       [] step.action = "screenshot" -> ""
       [] OTHER -> description

introText(session) ==
  "Welcome! In this tutorial, I'll show you how to "
  \o toLowerCase(session.title) \o ". Let's get started."

outroText(session) ==
  "And that's it! You've successfully completed "
  \o toLowerCase(session.title) \o ". Thanks for watching!"

\* ------------------- narration.ts: generateTimedNarration, video timestamps
Segment(stepId, startMs, endMs, text) ==
  [stepId |-> stepId, startMs |-> startMs, endMs |-> endMs,
   durationMs |-> endMs - startMs, text |-> text]

RECURSIVE sumDurations(_)
sumDurations(steps) ==
  IF steps = << >> THEN 0 ELSE Head(steps).duration + sumDurations(Tail(steps))

\* Segments that give every step the time from the previous segment's end to
\* the step's duration later, whatever offsets were recorded.
RECURSIVE narrateStepsBackToBack(_, _)
narrateStepsBackToBack(steps, segments) ==
  IF steps = << >> THEN segments
  ELSE LET step      == Head(steps)
           narration == stepToNarration(step)
           startMs   == segments[Len(segments)].endMs
           endMs     == startMs + step.duration
       IN narrateStepsBackToBack(Tail(steps),
            IF narration # ""
            THEN Append(segments, Segment(step.id, startMs, endMs, narration))
            ELSE segments)

\* The loop over session.steps: a step whose narration is the empty string
\* is skipped.
RECURSIVE narrateSteps(_, _)
narrateSteps(steps, segments) ==
  IF steps = << >> THEN segments
  ELSE LET step      == Head(steps)
           narration == stepToNarration(step)
           startMs   == Coalesce(step.videoStartMs,
                                 IF segments = << >> THEN 2000
                                 ELSE segments[Len(segments)].endMs)
           endMs     == Coalesce(step.videoEndMs, startMs + step.duration)
       IN narrateSteps(Tail(steps),
            IF narration # ""
            THEN Append(segments, Segment(step.id, startMs, endMs, narration))
            ELSE segments)

totalDurationMs(session) ==
  LET steps == session.steps IN
  Coalesce(IF steps = << >> THEN undefined ELSE steps[Len(steps)].videoEndMs,
           sumDurations(steps) + 5000)

generateTimedNarration(session) ==
  LET total      == totalDurationMs(session)
      intro      == Segment(0, 0, 2000, introText(session))
      segments   == narrateSteps(session.steps, <<intro>>)
      outroStart == IF segments = << >> THEN total - 3000
                    ELSE segments[Len(segments)].endMs
      outro      == Segment(0 - 1, outroStart, total, outroText(session))
  IN [title           |-> session.title,
      totalDurationMs |-> total,
      segments        |-> Append(segments, outro)]

\* --------------------- narration.ts: generateTimedNarration, estimated times
\* Math.round(a / b) for naturals.
roundDiv(a, b) == (2 * a + b) \div (2 * b)

estimatedDuration(narration) ==
  LET wordCount == Len(splitWhitespace(narration, 1, "", FALSE))
      estimate  == roundDiv(wordCount * 60 * 1000, 150)
  IN IF estimate > 2000 THEN estimate ELSE 2000

Timed(stepId, timestamp, duration, text) ==
  [stepId |-> stepId, timestamp |-> timestamp, duration |-> duration,
   text |-> text]

\* A loop that gives every step a segment, the ones without narration too.
RECURSIVE estimateEveryStep(_, _, _)
estimateEveryStep(steps, timedNarration, cumulativeTime) ==
  IF steps = << >>
  THEN [timedNarration |-> timedNarration, cumulativeTime |-> cumulativeTime]
  ELSE LET step      == Head(steps)
           narration == stepToNarration(step)
       IN estimateEveryStep(Tail(steps),
            Append(timedNarration,
                   Timed(step.id, cumulativeTime,
                         estimatedDuration(narration), narration)),
            cumulativeTime + step.duration + 500)

\* The loop over session.steps; the result is the list and cumulativeTime.
RECURSIVE estimateSteps(_, _, _)
estimateSteps(steps, timedNarration, cumulativeTime) ==
  IF steps = << >>
  THEN [timedNarration |-> timedNarration, cumulativeTime |-> cumulativeTime]
  ELSE LET step      == Head(steps)
           narration == stepToNarration(step)
       IN IF narration # ""
          THEN estimateSteps(Tail(steps),
                 Append(timedNarration,
                        Timed(step.id, cumulativeTime,
                              estimatedDuration(narration), narration)),
                 cumulativeTime + step.duration + 500)
          ELSE estimateSteps(Tail(steps), timedNarration, cumulativeTime)

generateTimedNarrationEstimated(session) ==
  LET intro == Timed(0, 0, 3000, introText(session))
      loop  == estimateSteps(session.steps, <<intro>>, 3000)
  IN Append(loop.timedNarration,
            Timed(0 - 1, loop.cumulativeTime, 4000, outroText(session)))

\* ------------------------------------- subtitle.ts: generateSrt, generateVtt
\* A format whose minutes are not reduced modulo the hour.
formatSrtTimeWholeMinutes(ms) ==
  LET hours        == ms \div 3600000
      minutes      == ms \div 60000
      seconds      == (ms % 60000) \div 1000
      milliseconds == ms % 1000
  IN padStart(toString(hours), 2, "0") \o ":"
     \o padStart(toString(minutes), 2, "0") \o ":"
     \o padStart(toString(seconds), 2, "0") \o ","
     \o padStart(toString(milliseconds), 3, "0")

formatSrtTime(ms) ==
  LET hours        == ms \div 3600000
      minutes      == (ms % 3600000) \div 60000
      seconds      == (ms % 60000) \div 1000
      milliseconds == ms % 1000
  IN padStart(toString(hours), 2, "0") \o ":"
     \o padStart(toString(minutes), 2, "0") \o ":"
     \o padStart(toString(seconds), 2, "0") \o ","
     \o padStart(toString(milliseconds), 3, "0")

\* The four lines generateSrt pushes for segment number index (from 0).
srtEntry(item, index) ==
  << toString(index + 1),
     formatSrtTime(item.startMs) \o " --> " \o formatSrtTime(item.endMs),
     item.text,
     "" >>

vttEntry(item, index) ==
  << toString(index + 1),
     replaceFirst(formatSrtTime(item.startMs), ",", ".") \o " --> "
       \o replaceFirst(formatSrtTime(item.endMs), ",", "."),
     item.text,
     "" >>

\* segments.forEach((item, index) => lines.push(...)), from index on.
RECURSIVE srtLines(_, _)
srtLines(segments, index) ==
  IF index >= Len(segments) THEN << >>
  ELSE srtEntry(segments[index + 1], index) \o srtLines(segments, index + 1)

RECURSIVE vttLines(_, _)
vttLines(segments, index) ==
  IF index >= Len(segments) THEN << >>
  ELSE vttEntry(segments[index + 1], index) \o vttLines(segments, index + 1)

generateSrt(session) ==
  join(srtLines(generateTimedNarration(session).segments, 0), "\n")

generateVtt(session) ==
  join(<<"WEBVTT", "">>
       \o vttLines(generateTimedNarration(session).segments, 0), "\n")

\* --------------------------------------------- the generators as a program
MaxLogLen == 2

\* What the client says a step does.
Descriptions == {"", "Click Save", "Agree\n\nthen go on"}

\* Tools and the details they record.
RecordedTools ==
  { <<"navigate", Details("https://x.test", "", "")>>,
    <<"click", Details("", "", "")>>,
    <<"fill", Details("", "hunter2", "")>>,
    <<"hover", Details("", "", "")>>,
    <<"screenshot", Details("", "", "")>> }

\* Milliseconds between the end of one step (or startSession's Date.now())
\* and the start of the next, and milliseconds a step takes.
Waits == {1200, 8000}

Tooks == {100, 2500}

\* Milliseconds between the two Date.now() calls of executeWithEvidence's
\* finally block.
Lags == {0, 1}

\* A tool records a step: executeWithEvidence's callers with the offsets in
\* the video, the other tools with the duration only. The client awaits each
\* call.
RecordStep(tool, description, wait, took, lag) ==
  LET startTime == gen.now + wait
      timed     == tool[1] \in EweTools
      endTime   == startTime + took + (IF timed THEN lag ELSE 0)
      step      == [id           |-> Len(gen.session.steps) + 1,
                    action       |-> tool[1],
                    description  |-> description,
                    details      |-> tool[2],
                    duration     |-> took,
                    videoStartMs |-> IF timed THEN startTime ELSE undefined,
                    videoEndMs   |-> IF timed THEN endTime ELSE undefined]
  IN /\ gen.out.kind = "none"
     /\ Len(gen.session.steps) < MaxLogLen
     /\ ~timed => lag = 0
     /\ gen' = [gen EXCEPT !.session.steps = Append(@, step),
                           !.now = endTime]
     /\ UNCHANGED <<currentSession, sessions, nsess, driver, calls, serial>>

Generate(kind, value) ==
  /\ gen.out.kind = "none"
  /\ gen' = [gen EXCEPT !.out = [kind |-> kind, value |-> value]]
  /\ UNCHANGED <<currentSession, sessions, nsess, driver, calls, serial>>

GenerateNarrationJson == Generate("narration", generateTimedNarration(gen.session))

GenerateEstimated ==
  Generate("estimated", generateTimedNarrationEstimated(gen.session))

GenerateSrt == Generate("srt", generateSrt(gen.session))

GenerateVtt == Generate("vtt", generateVtt(gen.session))

GeneratorNext ==
  \/ \E tool \in RecordedTools, description \in Descriptions,
        wait \in Waits, took \in Tooks, lag \in Lags :
       RecordStep(tool, description, wait, took, lag)
  \/ GenerateNarrationJson
  \/ GenerateEstimated
  \/ GenerateSrt
  \/ GenerateVtt

\* ------------------------------------------------------------- the server
\* StartSessionInput as the client gives it: <<screenshotOnStep, trace, video>>.
AllStartInputs == BOOLEAN \X BOOLEAN \X BOOLEAN

\* Sessions without trace and video: closeBrowser has two awaits, not five.
PlainStartInputs == { in \in AllStartInputs : ~in[2] /\ ~in[3] }

\* Sessions that, in addition, take no screenshot on a step.
BareStartInputs == { in \in PlainStartInputs : ~in[1] }

\* The server before the first request.
IdleServer ==
  /\ currentSession = NoSession
  /\ sessions = [s \in SessionIds |-> NoSessionObject]
  /\ nsess = 0
  /\ driver = [s \in SessionIds |-> NewDriver]
  /\ calls = [c \in Calls |-> IdleCall]

InitState ==
  /\ IdleServer
  /\ gen = NewGen

\* The server as built: the request handler awaits nothing between two
\* requests, so tool calls interleave at their awaits.
Init == InitState /\ serial = FALSE

\* The server driven by a client that awaits each response.
SeqInit == InitState /\ serial = TRUE

\* start, end and the response: every client uses them.
SessionActions(inputs) ==
  \/ \E c \in Calls, in \in inputs : BeginStart(c, in[1], in[2], in[3])
  \/ \E c \in Calls, o \in {"ok", "raise", "leak"} : StartLaunched(c, o)
  \/ \E c \in Calls, ok \in BOOLEAN : StartNavigated(c, ok)
  \/ \E c \in Calls : BeginEnd(c)
  \/ \E c \in Calls, ok \in BOOLEAN : ContextClosed(c, ok)
  \/ \E c \in Calls, ok \in BOOLEAN : BrowserClosed(c, ok)
  \/ \E c \in Calls : Respond(c)

\* The awaits closeBrowser adds for a session with trace or video.
MediaActions ==
  \/ \E c \in Calls, ok \in BOOLEAN : TraceStopped(c, ok)
  \/ \E c \in Calls, ok \in BOOLEAN : VideoPathRead(c, ok)
  \/ \E c \in Calls : VideoRenamed(c)

\* The tools that act on the active page and record a step.
EvidenceActions(ewe, post) ==
  \/ \E c \in Calls, tool \in ewe : BeginEwe(c, tool)
  \/ \E c \in Calls, ok \in BOOLEAN : EweScreenshotDone(c, ok)
  \/ \E c \in Calls, ok \in BOOLEAN : EweFnDone(c, ok)
  \/ \E c \in Calls, tool \in post : BeginPost(c, tool)
  \/ \E c \in Calls, o \in {"ok", "raise", "failed"} : PostFnDone(c, o)
  \/ \E c \in Calls, ok \in BOOLEAN : PostScreenshotDone(c, ok)
  \/ \E c \in Calls, ok \in BOOLEAN : HoverCursorRemoved(c, ok)
  \/ \E c \in Calls, named \in BOOLEAN : BeginScreenshot(c, named)
  \/ \E c \in Calls, ok \in BOOLEAN : ScreenshotTaken(c, ok)

\* The tab tools up to their screenshot.
TabOpActions ==
  \/ \E c \in Calls, url \in BOOLEAN : BeginNewTab(c, url)
  \/ \E c \in Calls, ok \in BOOLEAN : NewPageOpened(c, ok)
  \/ \E c \in Calls, ok \in BOOLEAN : NewTabNavigated(c, ok)
  \/ \E c \in Calls, id \in 0..MaxPageId : BeginSwitchTab(c, id)
  \/ \E c \in Calls, ok \in BOOLEAN : BroughtToFront(c, ok)
  \/ \E c \in Calls, id \in 0..MaxPageId : BeginCloseTab(c, id)
  \/ \E c \in Calls, ok \in BOOLEAN : TabClosed(c, ok)

\* The tab tools.
TabActions ==
  \/ TabOpActions
  \/ \E c \in Calls, ok \in BOOLEAN : TabScreenshotDone(c, ok)

Next ==
  \/ SessionActions(AllStartInputs)
  \/ MediaActions
  \/ EvidenceActions(EweTools, PostTools)
  \/ TabActions

RecorderNext ==
  SessionActions(PlainStartInputs) \/ EvidenceActions(SomeEweTools, SomePostTools)

RegistryNext == SessionActions(BareStartInputs) \/ TabOpActions

RegistrySeqNext == SessionActions(PlainStartInputs) \/ TabActions

LifecycleNext == SessionActions(AllStartInputs) \/ MediaActions

\* The whole server.
Spec == Init /\ [][Next]_vars

\* A client that uses no tab tool and records neither trace nor video.
RecorderSpec == Init /\ [][RecorderNext]_vars

\* A client that uses the tab tools only, on sessions that take no
\* screenshot on a step.
RegistrySpec == Init /\ [][RegistryNext]_vars

\* A client that uses the tab tools only and awaits each response before
\* its next call.
RegistrySeqSpec == SeqInit /\ [][RegistrySeqNext]_vars

\* A client that only starts and ends sessions, with every option.
LifecycleSpec == Init /\ [][LifecycleNext]_vars

\* The generators on the log of a session recorded by one client that awaits
\* each call; no tool call is in flight.
GeneratorSpec == SeqInit /\ [][GeneratorNext]_vars

\* ------------------------------------- the generators on one recorded step
\* A step executeWithEvidence recorded from startMs to endMs.
TimedStep(action, description, details, startMs, endMs) ==
  [id           |-> 1,
   action       |-> action,
   description  |-> description,
   details      |-> details,
   duration     |-> endMs - startMs,
   videoStartMs |-> startMs,
   videoEndMs   |-> endMs]

\* The generators' state for a session that recorded that one step.
OneStep(step) ==
  [session |-> [title |-> "Sign Up", steps |-> <<step>>],
   now     |-> step.videoEndMs,
   out     |-> NoOutput]

\* Values typed into a field: 1 to MaxValueLen characters, all different
\* and none of them a character of the narration around the value.
MaxValueLen == 23

ValueChars == "ABCDEFGHJKLMNOPQRSTUVWXYZ"

FillValues == { SubSeq(ValueChars, 1, n) : n \in 1..MaxValueLen }

FillDescriptions == {"", "enter the code"}

FillInit ==
  /\ IdleServer
  /\ serial = TRUE
  /\ \E value \in FillValues, description \in FillDescriptions :
       gen = OneStep(TimedStep("fill", description, Details("", value, ""),
                               3000, 3100))

FillNext ==
  \/ GenerateNarrationJson
  \/ GenerateEstimated
  \/ GenerateSrt
  \/ GenerateVtt

\* The generators on a session with one fill step.
FillSpec == FillInit /\ [][FillNext]_vars

\* Positions in the video, in milliseconds: around each unit of the
\* timestamp and up to the last millisecond before 100 hours.
SampleMs ==
  {0, 1, 999, 1000, 1001, 59999, 60000, 61001, 3599999, 3600000, 3661001,
   35999999, 36000000, 359999999}

TimeInit ==
  /\ IdleServer
  /\ serial = TRUE
  /\ \E startMs \in SampleMs, endMs \in SampleMs :
       /\ startMs <= endMs
       /\ gen = OneStep(TimedStep("click", "Click Save", Details("", "", ""),
                                  startMs, endMs))

TimeNext == GenerateSrt

\* generateSrt, and with it formatSrtTime, on a session whose one step
\* starts and ends at the sampled positions.
TimeSpec == TimeInit /\ [][TimeNext]_vars

\* ------------------------------------------ packager.ts: packageDeliverables
endsWith(s, suffix) ==
  Len(s) >= Len(suffix) /\ SubSeq(s, Len(s) - Len(suffix) + 1, Len(s)) = suffix

\* path.join(dir, name)
pathJoin(dir, name) == dir \o "/" \o name

outputDir == "/out"

\* A find that keeps the last such name.
RECURSIVE findLastWebm(_)
findLastWebm(files) ==
  IF files = << >> THEN ""
  ELSE IF findLastWebm(Tail(files)) # "" THEN findLastWebm(Tail(files))
  ELSE IF endsWith(Head(files), ".webm") THEN Head(files)
  ELSE ""

\* files.find(f => f.endsWith('.webm')): the first such name, "" for none.
RECURSIVE findWebm(_)
findWebm(files) ==
  IF files = << >> THEN ""
  ELSE IF endsWith(Head(files), ".webm") THEN Head(files)
  ELSE findWebm(Tail(files))

\* The deliverables that are generated and written one after another, the
\* manifest field and the file name of each.
WriteStages == <<"guide", "steps", "narration", "subtitleSrt", "subtitleVtt",
                 "tutorial">>

FileName ==
  [guide |-> "guide.md", steps |-> "steps.json", narration |-> "narration.txt",
   subtitleSrt |-> "subtitles.srt", subtitleVtt |-> "subtitles.vtt",
   tutorial |-> "tutorial.html"]

\* The manifest's files before anything is written: "" is an absent path.
NoFiles ==
  [video |-> "", trace |-> "", guide |-> "", steps |-> "", narration |-> "",
   subtitleSrt |-> "", subtitleVtt |-> "", tutorial |-> "", gifPreview |-> ""]

\* What the output directory holds when packaging begins: demo.webm or not,
\* the listing of videos/ (or no such directory), trace.zip or not.
VideosListings ==
  {<< >>, <<"page-1.webm">>, <<"notes.txt", "b.webm", "a.webm">>}

Disks ==
  [finalVideo : BOOLEAN, videosDir : BOOLEAN, videos : VideosListings,
   trace : BOOLEAN]

\* packageDeliverables at its first await.
NewPack(disk) ==
  [disk |-> disk, stage |-> 1, files |-> NoFiles, failed |-> "none",
   result |-> "running"]

PackUnchanged ==
  UNCHANGED <<currentSession, sessions, nsess, driver, calls, serial>>

\* A generator ran and fs.writeFile resolved, or one of the two threw: no
\* try surrounds them, so packageDeliverables rejects.
PackWrite(ok) ==
  /\ gen.result = "running"
  /\ gen.stage \in 1..Len(WriteStages)
  /\ LET field == WriteStages[gen.stage] IN
     IF ok
     THEN gen' = [gen EXCEPT !.files[field] = pathJoin(outputDir, FileName[field]),
                             !.stage = @ + 1]
     ELSE gen' = [gen EXCEPT !.failed = field, !.result = "thrown"]
  /\ PackUnchanged

\* await generateGif(session, outputDir): a path, null without screenshots,
\* or a rejection of its own writeFile.
PackPreview(outcome) ==
  /\ gen.result = "running"
  /\ gen.stage = Len(WriteStages) + 1
  /\ CASE outcome = "path" ->
            gen' = [gen EXCEPT !.files.gifPreview =
                                 pathJoin(outputDir, "animated-preview.html"),
                               !.stage = @ + 1]
       [] outcome = "null" -> gen' = [gen EXCEPT !.stage = @ + 1]
       [] OTHER -> gen' = [gen EXCEPT !.failed = "gifPreview",
                                      !.result = "thrown"]
  /\ PackUnchanged

\* await fs.readdir(assetsDir) inside try/catch.
PackAssets(ok) ==
  /\ gen.result = "running"
  /\ gen.stage = Len(WriteStages) + 2
  /\ gen' = [gen EXCEPT !.stage = @ + 1]
  /\ PackUnchanged

\* await fs.access(expectedVideoPath); in the catch, readdir(videosDir) is
\* the next await.
PackVideo ==
  /\ gen.result = "running"
  /\ gen.stage = Len(WriteStages) + 3
  /\ IF gen.disk.finalVideo
     THEN gen' = [gen EXCEPT !.files.video = pathJoin(outputDir, "demo.webm"),
                             !.stage = @ + 2]
     ELSE gen' = [gen EXCEPT !.stage = @ + 1]
  /\ PackUnchanged

\* await fs.readdir(videosDir) inside try/catch.
PackVideosDir ==
  /\ gen.result = "running"
  /\ gen.stage = Len(WriteStages) + 4
  /\ LET webmFile == IF gen.disk.videosDir THEN findWebm(gen.disk.videos)
                     ELSE ""
     IN gen' = [gen EXCEPT
                  !.files.video =
                     IF webmFile # ""
                     THEN pathJoin(pathJoin(outputDir, "videos"), webmFile)
                     ELSE "",
                  !.stage = @ + 1]
  /\ PackUnchanged

\* await fs.access(expectedTracePath) inside try/catch, then the return.
PackTrace ==
  /\ gen.result = "running"
  /\ gen.stage = Len(WriteStages) + 5
  /\ gen' = [gen EXCEPT
               !.files.trace = IF gen.disk.trace
                               THEN pathJoin(outputDir, "trace.zip") ELSE "",
               !.result = "returned"]
  /\ PackUnchanged

PackInit ==
  /\ IdleServer
  /\ serial = TRUE
  /\ \E disk \in Disks : gen = NewPack(disk)

PackNext ==
  \/ \E ok \in BOOLEAN : PackWrite(ok)
  \/ \E outcome \in {"path", "null", "raise"} : PackPreview(outcome)
  \/ \E ok \in BOOLEAN : PackAssets(ok)
  \/ PackVideo
  \/ PackVideosDir
  \/ PackTrace

\* packageDeliverables on a completed session, for every content of the
\* output directory and every outcome of a generator and a write.
PackSpec == PackInit /\ [][PackNext]_vars

\* ------------------------------------------------------ tts.ts: generateTTS
\* Sessions whose narration is synthesized: up to three clicks, 3 s apart.
MaxTtsSteps == 3

TtsClicks ==
  [n \in 1..MaxTtsSteps |->
     [TimedStep("click", "Click Save", Details("", "", ""),
                3000 * n, 3000 * n + 100) EXCEPT !.id = n]]

TtsSessions ==
  { [title |-> "Sign Up", steps |-> SubSeq(TtsClicks, 1, n)] :
      n \in 0..MaxTtsSteps }

\* generateTTS at its first await (fs.mkdir).
NewTts(narrationData) ==
  [narrationData |-> narrationData, stage |-> "mkdir", i |-> 0,
   segmentResults |-> << >>, inputs |-> << >>, filterParts |-> << >>,
   result |-> "running"]

TtsUnchanged ==
  UNCHANGED <<currentSession, sessions, nsess, driver, calls, serial>>

\* path.join(tempDir, `segment-${i.toString().padStart(3, '0')}.mp3`)
segmentAudioPath(i) ==
  pathJoin(pathJoin(outputDir, ".tts-temp"),
           "segment-" \o padStart(toString(i), 3, "0") \o ".mp3")

\* The adelay entries of mergeAudioSegments: input k + 1 is segments[k].
adelays(segments, narrationData) ==
  [k \in 1..Len(segments) |->
     [input |-> k, delayMs |-> narrationData.segments[k].startMs]]

\* await fs.mkdir(tempDir) is outside the try block.
TtsMkdir(ok) ==
  /\ gen.stage = "mkdir"
  /\ gen' = IF ok THEN [gen EXCEPT !.stage = "synth"]
            ELSE [gen EXCEPT !.stage = "done", !.result = "thrown"]
  /\ TtsUnchanged

\* One await of the provider for segment i: false is a failed synthesis, the
\* segment is skipped.  After the last one: null when nothing was synthesized,
\* else mergeAudioSegments up to its import.
TtsSegment(success) ==
  /\ gen.stage = "synth"
  /\ LET i       == gen.i
         segment == gen.narrationData.segments[i + 1]
         results == IF success
                    THEN Append(gen.segmentResults,
                                [segmentId |-> i,
                                 audioPath |-> segmentAudioPath(i),
                                 durationMs |-> segment.durationMs])
                    ELSE gen.segmentResults
         last    == i + 1 = Len(gen.narrationData.segments)
     IN gen' = [gen EXCEPT
                  !.i = i + 1,
                  !.segmentResults = results,
                  !.stage = IF ~last THEN "synth"
                            ELSE IF results = << >> THEN "done"
                            ELSE "import",
                  !.result = IF last /\ results = << >> THEN "null" ELSE @]
  /\ TtsUnchanged

\* await import('ffmpeg-static'): without a binary it throws (null is returned
\* after the cleanup); with one, the inputs and the filter are built and
\* ffmpeg is started.
TtsImport(found) ==
  /\ gen.stage = "import"
  /\ gen' = IF ~found THEN [gen EXCEPT !.stage = "cleanup", !.result = "null"]
            ELSE [gen EXCEPT
                    !.stage = "ffmpeg",
                    !.inputs = [k \in 1..Len(gen.segmentResults) |->
                                  gen.segmentResults[k].audioPath],
                    !.filterParts = adelays(gen.segmentResults,
                                            gen.narrationData)]
  /\ TtsUnchanged

\* await execFileAsync(ffmpegPath, ...) settles.
TtsFfmpeg(ok) ==
  /\ gen.stage = "ffmpeg"
  /\ gen' = [gen EXCEPT !.stage = "cleanup",
                        !.result = IF ok THEN pathJoin(outputDir, "narration.mp3")
                                   ELSE "null"]
  /\ TtsUnchanged

\* await fs.rm(tempDir): a rejection after a merge is caught and null is
\* returned; after an error it is ignored.
TtsCleanup(ok) ==
  /\ gen.stage = "cleanup"
  /\ gen' = [gen EXCEPT !.stage = "done",
                        !.result = IF ok THEN @ ELSE "null"]
  /\ TtsUnchanged

TtsInit ==
  /\ IdleServer
  /\ serial = TRUE
  /\ \E session \in TtsSessions : gen = NewTts(generateTimedNarration(session))

TtsNext ==
  \/ \E ok \in BOOLEAN : TtsMkdir(ok)
  \/ \E success \in BOOLEAN : TtsSegment(success)
  \/ \E found \in BOOLEAN : TtsImport(found)
  \/ \E ok \in BOOLEAN : TtsFfmpeg(ok)
  \/ \E ok \in BOOLEAN : TtsCleanup(ok)

\* generateTTS on the narration of a session, every synthesis succeeding or
\* failing.
TtsSpec == TtsInit /\ [][TtsNext]_vars

\* ----------------------------------- json.ts and cli.ts: steps.json and back
\* An optional value is a sequence: << >> is undefined, <<v>> is v.  An
\* object is a function on its own keys.
Absent == << >>

Some(v) == <<v>>

\* obj[key] in JavaScript: undefined for a key the object does not have.
Get(obj, key) == IF key \in DOMAIN obj THEN obj[key] ELSE Absent

\* What JSON.parse reads back from JSON.stringify of an object whose values
\* are optional: a key whose value is undefined is not written.
jsonObject(obj) ==
  LET keys == { k \in DOMAIN obj : obj[k] # Absent }
  IN [k \in keys |-> obj[k][1]]

\* An object read from JSON, with every value it has made optional again.
fromJson(obj) == [k \in DOMAIN obj |-> Some(obj[k])]

\* Date.prototype.toISOString.  A Date is its milliseconds after
\* 2026-01-01T00:00:00.000Z, within that day.
toISOString(ms) ==
  "2026-01-01T" \o padStart(toString(ms \div 3600000), 2, "0") \o ":"
  \o padStart(toString((ms % 3600000) \div 60000), 2, "0") \o ":"
  \o padStart(toString((ms % 60000) \div 1000), 2, "0") \o "."
  \o padStart(toString(ms % 1000), 3, "0") \o "Z"

\* The number a string of decimal digits stands for.
RECURSIVE parseDigits(_)
parseDigits(s) ==
  IF s = "" THEN 0
  ELSE 10 * parseDigits(SubSeq(s, 1, Len(s) - 1))
       + (CHOOSE d \in 0..9 : charAt("0123456789", d + 1) = charAt(s, Len(s)))

\* new Date(isoString) for a string of that day.
newDate(s) ==
  parseDigits(SubSeq(s, 12, 13)) * 3600000
  + parseDigits(SubSeq(s, 15, 16)) * 60000
  + parseDigits(SubSeq(s, 18, 19)) * 1000
  + parseDigits(SubSeq(s, 21, 23))

\* The entry of a step in steps.json: generateStepsJson's object as
\* JSON.stringify writes it and JSON.parse reads it.
stepJson(step) ==
  [id |-> step.id, action |-> step.action, description |-> step.description,
   timestamp |-> toISOString(step.timestamp), duration |-> step.duration,
   details |-> jsonObject(step.details),
   evidence |-> jsonObject([screenshotPath |->
                              Get(step.evidence, "screenshotPath")]),
   success |-> step.success]
  @@ jsonObject([error |-> step.error])

\* generateStepsJson(session), written and read: the steps array.
generateStepsJson(session) ==
  [k \in 1..Len(session.steps) |-> stepJson(session.steps[k])]

\* s.success || true
successOrTrue(s) ==
  IF "success" \in DOMAIN s /\ s.success THEN s.success ELSE TRUE

\* s.success ?? true
successOrDefault(s) == IF "success" \in DOMAIN s THEN s.success ELSE TRUE

\* cli.ts generate: the DemoStep built from entry s at index i (from 0).
loadStep(s, i) ==
  [id          |-> i + 1,
   action      |-> s.action,
   description |-> s.description,
   timestamp   |-> newDate(s.timestamp),
   duration    |-> IF "duration" \in DOMAIN s /\ s.duration # 0
                   THEN s.duration ELSE 0,
   details     |-> IF "details" \in DOMAIN s THEN fromJson(s.details)
                   ELSE fromJson(<< >>),
   evidence    |-> IF "evidence" \in DOMAIN s THEN fromJson(s.evidence)
                   ELSE fromJson(<< >>),
   success     |-> successOrDefault(s),
   error       |-> Get(fromJson(s), "error")]

\* The session the CLI builds from a parsed steps.json.
loadSession(stepsData) ==
  [title |-> "Demo",
   steps |-> [k \in 1..Len(stepsData) |-> loadStep(stepsData[k], k - 1)]]

\* Recorded steps: a DemoStep with timestamp, evidence, success and error.
LoggedStep(action, description, timestamp, duration, details, shot, success, error) ==
  [id |-> 0, action |-> action, description |-> description,
   timestamp |-> timestamp, duration |-> duration, details |-> details,
   evidence |-> [screenshotPath |-> shot], success |-> success,
   error |-> error]

LoggedDetails ==
  { [ref |-> Some("e5"), value |-> value] : value \in {Absent, Some(""), Some("hunter2")} }
  \cup { [url |-> Some("https://example.com")], << >> }

LoggedTimestamps == {0, 1001, 45296789, 86399999}

LoggedSteps ==
  { LoggedStep(action, description, timestamp, duration, details, shot,
               error = Absent, error) :
      action \in {"fill"}, description \in {"", "Type the \"code\""},
      timestamp \in LoggedTimestamps, duration \in {0, 100},
      details \in LoggedDetails,
      shot \in {Absent, Some("/out/assets/step-001.png")},
      error \in {Absent, Some(""), Some("ActionRaised")} }

\* A failed navigation followed by a click, in this order.
TwoLoggedSteps ==
  << LoggedStep("navigate", "Open the page", 1001, 0,
                [url |-> Some("https://example.com")], Absent, FALSE,
                Some("ActionRaised")),
     LoggedStep("click", "", 45296789, 100, [ref |-> Some("e5")],
                Some("/out/assets/step-002.png"), TRUE, Absent) >>

\* addStep numbers the steps of a log by position.
Numbered(steps) == [k \in 1..Len(steps) |-> [steps[k] EXCEPT !.id = k]]

LoggedSessions ==
  { [title |-> "Sign Up", steps |-> Numbered(<<step>>)] : step \in LoggedSteps }
  \cup { [title |-> "Sign Up", steps |-> Numbered(steps)] :
           steps \in {<< >>, TwoLoggedSteps,
                      <<TwoLoggedSteps[2], TwoLoggedSteps[1]>>} }

NewJson(session) ==
  [session |-> session, stage |-> "recorded", first |-> << >>,
   second |-> << >>]

JsonUnchanged ==
  UNCHANGED <<currentSession, sessions, nsess, driver, calls, serial>>

\* packageDeliverables writes steps.json from the recorded session.
WriteStepsJson ==
  /\ gen.stage = "recorded"
  /\ gen' = [gen EXCEPT !.stage = "written",
                        !.first = generateStepsJson(gen.session)]
  /\ JsonUnchanged

\* demosmith generate steps.json: the file is parsed, the session rebuilt
\* and steps.json generated again.
CliGenerate ==
  /\ gen.stage = "written"
  /\ gen' = [gen EXCEPT !.stage = "regenerated",
                        !.second = generateStepsJson(loadSession(gen.first))]
  /\ JsonUnchanged

JsonInit ==
  /\ IdleServer
  /\ serial = TRUE
  /\ \E session \in LoggedSessions : gen = NewJson(session)

JsonNext == WriteStepsJson \/ CliGenerate

\* steps.json written from a recorded session and regenerated by the CLI.
JsonSpec == JsonInit /\ [][JsonNext]_vars

\* ============================================================== properties
IsPrefix(a, b) == Len(a) <= Len(b) /\ \A i \in 1..Len(a) : a[i] = b[i]

Min(S) == CHOOSE x \in S : \A y \in S : x <= y

\* The current session, when it is running.
Running(s) == s = currentSession /\ s # NoSession /\ sessions[s].status = "running"

\* C1: in every session's step log the step at position k has id k, whatever
\* the tools were, whether their actions failed, and however the calls
\* interleaved at their awaits.
C1_StepIdsContiguous ==
  \A s \in SessionIds :
    \A k \in 1..Len(sessions[s].steps) : sessions[s].steps[k].id = k

\* Two calls that both computed step number 1 before either recorded its
\* step (they interleaved), the second one's action having failed.
C1_Witness ==
  \E s \in SessionIds :
    /\ Len(sessions[s].steps) = 2
    /\ sessions[s].steps[1].screenshot = 1
    /\ sessions[s].steps[2].screenshot = 1
    /\ ~sessions[s].steps[2].success

\* C2: no step of the program changes a step that is in a log: the log
\* before the step is a prefix of the log after it, for every session object
\* that still exists.
C2_AppendOnly ==
  [][\A s \in SessionIds :
       sessions'[s].status # "gone" =>
         IsPrefix(sessions[s].steps, sessions'[s].steps)]_vars

\* A log whose first step is a failed one and that was appended to afterwards.
C2_Witness ==
  \E s \in SessionIds :
    /\ Len(sessions[s].steps) = 2
    /\ ~sessions[s].steps[1].success
    /\ sessions[s].steps[1].error = "ActionRaised"
    /\ sessions[s].steps[2].success

\* C3: a tool whose action raises answers with the action's error only after
\* a step with success = false and that error was appended to a log.
C3_FailedActionRecorded ==
  [][\A c \in Calls :
       (/\ calls[c].pc \in {"ewe_fn", "post_fn"}
        /\ calls'[c].pc = "done"
        /\ calls'[c].result = "ActionRaised")
       => \E s \in SessionIds :
            /\ Len(sessions'[s].steps) = Len(sessions[s].steps) + 1
            /\ ~sessions'[s].steps[Len(sessions'[s].steps)].success
            /\ sessions'[s].steps[Len(sessions'[s].steps)].error # ""]_vars

\* What a call of executeWithEvidence does, in the order the claim gives.
EvidenceOrder == <<"screenshot", "fn", "settled", "addStep">>

C5_RegistryLive ==
  \A s \in SessionIds :
    Running(s) =>
      /\ sessions[s].pages # << >>
      /\ HasPage(sessions[s].pages, sessions[s].activePageId)

\* C6: closeTab(id) when id is the only entry of the registry throws
\* 'Cannot close the last tab' and changes no session: pages, activePageId,
\* page and nextPageId are what they were.
C6_CannotCloseLast ==
  [][\A c \in Calls, id \in 0..MaxPageId :
       (/\ BeginCloseTab(c, id)
        /\ requireSession(sessions, currentSession) = "ok"
        /\ sessions[currentSession].pages = <<id>>)
       => /\ calls'[c].pc = "done"
          /\ calls'[c].result = "CannotCloseLastTab"
          /\ sessions' = sessions]_vars

\* The refusal, for a last tab that is not tab 0.
C6_Witness ==
  \E c \in Calls :
    /\ calls[c].pc = "done"
    /\ calls[c].tool = "closeTab"
    /\ calls[c].result = "CannotCloseLastTab"
    /\ Running(currentSession)
    /\ sessions[currentSession].pages = <<1>>
    /\ sessions[currentSession].activePageId = 1

\* C7: when closeTab closed the active tab of a session, the entry is gone
\* from that session's registry and the session's active id (and page) is
\* the least of the remaining ids.
C7_SwitchToMin ==
  [][\A c \in Calls :
       (/\ calls[c].pc = "cl_close"
        /\ calls'[c].pc = "sw_front")
       => LET s == calls[c].session IN
          /\ sessions[s].activePageId = calls[c].arg
          /\ PageIds(sessions'[s].pages)
               = PageIds(sessions[s].pages) \ {calls[c].arg}
          /\ sessions'[s].activePageId = Min(PageIds(sessions'[s].pages))
          /\ sessions'[s].page = sessions'[s].activePageId]_vars

\* Every id in a registry is below the session's counter.
C8_LiveBelowCounter ==
  \A s \in SessionIds :
    \A id \in PageIds(sessions[s].pages) : id < sessions[s].nextPageId

\* The counter never decreases; an id added to a registry that has a tab is
\* the counter's value, the counter is one more afterwards, and the active
\* tab is the one it was.
C8_OpenAllocates ==
  \A s \in SessionIds :
    (sessions[s].pages # << >> /\ sessions'[s].status # "gone") =>
      /\ sessions'[s].nextPageId >= sessions[s].nextPageId
      /\ \A id \in PageIds(sessions'[s].pages) \ PageIds(sessions[s].pages) :
           /\ id = sessions[s].nextPageId
           /\ sessions'[s].nextPageId = id + 1
           /\ sessions'[s].activePageId = sessions[s].activePageId
           /\ sessions'[s].page = sessions[s].page

\* C8: every id in a registry is below the session's counter, the counter
\* never decreases, and an id that newTab adds is the counter's value, after
\* which the counter is one more: so the id is greater than every id that
\* was ever in the registry.  newTab leaves activePageId and page alone.
C8_MonotonicIds == []C8_LiveBelowCounter /\ [][C8_OpenAllocates]_vars

\* newTab answered 2 while tab 1 is closed: id 1 is not handed out again.
C8_Witness ==
  \E c \in Calls :
    /\ calls[c].pc = "done"
    /\ calls[c].tool = "newTab"
    /\ calls[c].result = "ok"
    /\ Running(currentSession)
    /\ sessions[currentSession].pages = <<0, 2>>
    /\ sessions[currentSession].nextPageId = 3

\* C9: switchTab(id) with id not in the registry throws 'Tab with id not
\* found' and changes no session; with id in the registry it sets
\* activePageId and page to id and the registry keeps its ids.
C9_Switch ==
  [][\A c \in Calls, id \in 0..MaxPageId :
       (/\ BeginSwitchTab(c, id)
        /\ requireSession(sessions, currentSession) = "ok")
       => LET s == currentSession IN
          IF ~HasPage(sessions[s].pages, id)
          THEN /\ calls'[c].pc = "done"
               /\ calls'[c].result = "TabNotFound"
               /\ sessions' = sessions
          ELSE /\ sessions'[s].activePageId = id
               /\ sessions'[s].page = id
               /\ sessions'[s].pages = sessions[s].pages]_vars

\* switchTab(2) made tab 2 active; a later switchTab to the closed tab 1 is
\* refused.
C9_Witness ==
  \E c \in Calls :
    /\ calls[c].pc = "done"
    /\ calls[c].tool = "switchTab"
    /\ calls[c].result = "TabNotFound"
    /\ Running(currentSession)
    /\ sessions[currentSession].pages = <<0, 2>>
    /\ sessions[currentSession].activePageId = 2

\* startSession's endSession returned and launchBrowser is called: the prior
\* session is completed, closed and cleared, the pointer is null, and the new
\* session has no browser yet.
C10_PriorEnded ==
  \A c \in Calls :
    (/\ calls[c].ret = "start"
     /\ calls[c].pc \in {"cb_trace", "cb_video", "cb_ctx", "cb_browser",
                         "cb_rename"}
     /\ calls'[c].pc = "st_launch")
    => LET p == calls[c].session IN
       /\ sessions'[p].status = "completed"
       /\ ~sessions'[p].browser /\ ~sessions'[p].context
       /\ sessions'[p].page = NoPage /\ sessions'[p].pages = << >>
       /\ driver'[p].browser = "closed" /\ driver'[p].context = "closed"
       /\ currentSession' = NoSession
       /\ calls'[c].session # p
       /\ driver'[calls'[c].session].browser = "none"

\* startSession returned: the pointer is on its session, which is running
\* with no step and the one tab 0, active.
C10_StartReturns ==
  \A c \in Calls :
    (calls[c].pc = "done" /\ calls[c].tool = "start" /\ calls[c].result = "ok")
    => LET s == calls[c].session IN
       /\ currentSession = s
       /\ sessions[s].status = "running"
       /\ sessions[s].steps = << >>
       /\ sessions[s].pages = <<0>>
       /\ sessions[s].activePageId = 0
       /\ sessions[s].page = 0
       /\ driver[s].browser = "open"

\* C10: when startSession, called with a session current, goes on to launch
\* the new browser, the prior session has status completed, its browser and
\* context are closed, its references are cleared and the session pointer is
\* null; when startSession returns, the pointer is on the new session, which
\* is running with no step and the one tab 0, active.
C10_SingleSession == []C10_StartReturns /\ [][C10_PriorEnded]_vars

\* The second startSession returned; the first session was ended by it.
C10_Witness ==
  \E c \in Calls :
    /\ calls[c].pc = "done" /\ calls[c].tool = "start" /\ calls[c].result = "ok"
    /\ calls[c].session = 2
    /\ sessions[1].status = "completed"
    /\ driver[1].browser = "closed"
    /\ sessions[1].pages = << >>

\* C11: when end() returns the session, the session is completed, its
\* registry is empty, its browser, context and page references are cleared,
\* and the session pointer is null.
C11_EndReturns ==
  \A c \in Calls :
    (calls[c].pc = "done" /\ calls[c].tool = "end" /\ calls[c].result = "ok")
    => LET s == calls[c].session IN
       /\ sessions[s].status = "completed"
       /\ sessions[s].pages = << >>
       /\ ~sessions[s].browser /\ ~sessions[s].context
       /\ sessions[s].page = NoPage
       /\ currentSession = NoSession

\* end() returned a session that recorded trace and video.
C11_Witness ==
  \E c \in Calls :
    /\ calls[c].pc = "done" /\ calls[c].tool = "end" /\ calls[c].result = "ok"
    /\ sessions[calls[c].session].trace
    /\ sessions[calls[c].session].video
    /\ driver[calls[c].session].browser = "closed"

C13_ReleasedOnEveryPath ==
  \A c \in Calls :
    (/\ calls[c].pc = "done" /\ calls[c].tool = "end"
     /\ calls[c].session # NoSession)
    => /\ driver[calls[c].session].browser # "open"
       /\ driver[calls[c].session].context # "open"
       /\ ~driver[calls[c].session].tracing
       /\ currentSession = NoSession

\* C14: a log grows only while its session's status is running.
C14_StepsOnlyWhileRunning ==
  [][\A s \in SessionIds :
       Len(sessions'[s].steps) > Len(sessions[s].steps)
       => sessions[s].status = "running"]_vars

\* C15: no handler begins while another tool call is in flight.
C15_OneCallAtATime == Cardinality(InFlight) <= 1

\* ------------------------------------------------ reading subtitles back
\* Position of the first occurrence of sub in s from i on, 0 if there is none.
RECURSIVE IndexOf(_, _, _)
IndexOf(s, sub, i) ==
  IF i + Len(sub) - 1 > Len(s) THEN 0
  ELSE IF SubSeq(s, i, i + Len(sub) - 1) = sub THEN i
  ELSE IndexOf(s, sub, i + 1)

\* s.split(sep) for a one-character separator.
RECURSIVE SplitOn(_, _)
SplitOn(s, sep) ==
  LET at == IndexOf(s, sep, 1) IN
  IF at = 0 THEN <<s>>
  ELSE <<SubSeq(s, 1, at - 1)>> \o SplitOn(SubSeq(s, at + 1, Len(s)), sep)

IsNumber(s) ==
  s # "" /\ \A i \in 1..Len(s) : IndexOf("0123456789", charAt(s, i), 1) > 0

RECURSIVE ParseNumber(_)
ParseNumber(s) ==
  IF s = "" THEN 0
  ELSE 10 * ParseNumber(SubSeq(s, 1, Len(s) - 1))
       + IndexOf("0123456789", charAt(s, Len(s)), 1) - 1

\* Milliseconds of HH:MM:SS,mmm (SRT) or HH:MM:SS.mmm (WebVTT).
ParseTime(s, point) ==
  LET hms == SplitOn(s, ":")
      sf  == SplitOn(hms[3], point)
  IN ParseNumber(hms[1]) * 3600000 + ParseNumber(hms[2]) * 60000
     + ParseNumber(sf[1]) * 1000 + ParseNumber(sf[2])

\* The blocks of a subtitle file: runs of lines between empty lines.
RECURSIVE Blocks(_, _)
Blocks(lines, block) ==
  IF lines = << >> THEN (IF block = << >> THEN << >> ELSE <<block>>)
  ELSE IF Head(lines) = ""
       THEN (IF block = << >> THEN << >> ELSE <<block>>)
            \o Blocks(Tail(lines), << >>)
       ELSE Blocks(Tail(lines), Append(block, Head(lines)))

\* A block is a cue when its first line is a number and its second a timing
\* line; a player drops the other blocks.
IsCue(block) ==
  /\ Len(block) >= 2
  /\ IsNumber(block[1])
  /\ IndexOf(block[2], " --> ", 1) > 0

Cue(block, point) ==
  LET arrow == IndexOf(block[2], " --> ", 1) IN
  [index   |-> ParseNumber(block[1]),
   startMs |-> ParseTime(SubSeq(block[2], 1, arrow - 1), point),
   endMs   |-> ParseTime(SubSeq(block[2], arrow + 5, Len(block[2])), point),
   text    |-> join(SubSeq(block, 3, Len(block)), "\n")]

RECURSIVE CuesOf(_, _)
CuesOf(blocks, point) ==
  IF blocks = << >> THEN << >>
  ELSE (IF IsCue(Head(blocks)) THEN <<Cue(Head(blocks), point)>> ELSE << >>)
       \o CuesOf(Tail(blocks), point)

\* The cues of the subtitle file a generator returned.
Cues ==
  CuesOf(Blocks(SplitOn(gen.out.value, "\n"), << >>),
         IF gen.out.kind = "srt" THEN "," ELSE ".")

Subtitles == gen.out.kind \in {"srt", "vtt"}

\* The steps of the log that get a narration text.
Narrated == { i \in 1..Len(gen.session.steps) :
                stepToNarration(gen.session.steps[i]) # "" }

\* C16: in a subtitle file no cue starts before the start or before the end
\* of the cue before it.
C16_CuesInOrder ==
  Subtitles =>
    \A i \in 1..(Len(Cues) - 1) :
      /\ Cues[i + 1].startMs >= Cues[i].startMs
      /\ Cues[i + 1].startMs >= Cues[i].endMs

\* C17: the narration has one segment per step with a narration text, in log
\* order, between the intro and the outro; a screenshot step has none.
C17_SegmentPerNarratedStep ==
  gen.out.kind = "estimated" =>
    LET timed == gen.out.value
        n     == Len(timed)
    IN /\ n = 2 + Cardinality(Narrated)
       /\ timed[1].stepId = 0 /\ timed[n].stepId = 0 - 1
       /\ \A j \in 2..(n - 1) :
            /\ timed[j].stepId \in Narrated
            /\ gen.session.steps[timed[j].stepId].action # "screenshot"
            /\ timed[j].text = stepToNarration(gen.session.steps[timed[j].stepId])
            /\ j > 2 => timed[j - 1].stepId < timed[j].stepId

\* A log with a screenshot step, a step whose narration is empty and nothing
\* else (two segments), and one with a narrated step after a screenshot.
C17_Witness ==
  /\ gen.out.kind = "estimated"
  /\ Len(gen.session.steps) = 2
  /\ gen.session.steps[1].action = "screenshot"
  /\ gen.session.steps[1].description # ""
  /\ gen.session.steps[2].action = "click"
  /\ Len(gen.out.value) = 3

\* C18: the cues of a subtitle file are the narration segments: as many,
\* numbered from 1, each with its segment's start, end and text.
C18_CuePerSegment ==
  Subtitles =>
    LET segments == generateTimedNarration(gen.session).segments IN
    /\ Len(Cues) = Len(segments)
    /\ \A i \in 1..Len(Cues) :
         /\ Cues[i].index = i
         /\ Cues[i].startMs = segments[i].startMs
         /\ Cues[i].endMs = segments[i].endMs
         /\ Cues[i].text = segments[i].text

C20_NoOverlap ==
  gen.out.kind = "estimated" =>
    \A i \in 1..(Len(gen.out.value) - 1) :
      gen.out.value[i].timestamp + gen.out.value[i].duration
        <= gen.out.value[i + 1].timestamp

\* C28: every segment of the narration with video timestamps ends no earlier
\* than it starts, and its durationMs is that difference; the outro too.
C28_SegmentsForward ==
  gen.out.kind = "narration" =>
    \A i \in 1..Len(gen.out.value.segments) :
      LET segment == gen.out.value.segments[i] IN
      /\ segment.endMs >= segment.startMs
      /\ segment.durationMs = segment.endMs - segment.startMs
      /\ segment.durationMs >= 0

\* ------------------------------------------------------------ fill values
\* The narration texts of step 1 in the generator's output.
StepTexts ==
  CASE gen.out.kind = "estimated" ->
         { gen.out.value[j].text : j \in { k \in 1..Len(gen.out.value) :
                                           gen.out.value[k].stepId = 1 } }
    [] gen.out.kind = "narration" ->
         { gen.out.value.segments[j].text :
             j \in { k \in 1..Len(gen.out.value.segments) :
                     gen.out.value.segments[k].stepId = 1 } }
    [] Subtitles ->
         { Cues[j].text : j \in { k \in 1..Len(Cues) : Cues[k].index = 2 } }
    [] OTHER -> {}

FillStep ==
  /\ Len(gen.session.steps) = 1
  /\ gen.session.steps[1].action = "fill"
  /\ gen.session.steps[1].details.value # ""

\* C24: the narration of a fill step quotes a value of at most 20 characters
\* unchanged and a longer one as its first 20 characters followed by "...";
\* no character after the 20th appears in the text.
C24_FillMasked ==
  (FillStep /\ gen.out.kind # "none") =>
    LET v      == gen.session.steps[1].details.value
        quoted == IF Len(v) <= 20 THEN "\"" \o v \o "\""
                  ELSE "\"" \o SubSeq(v, 1, 20) \o "...\""
    IN /\ StepTexts # {}
       /\ \A text \in StepTexts :
            /\ IndexOf(text, quoted, 1) > 0
            /\ \A i \in 21..Len(v) : IndexOf(text, charAt(v, i), 1) = 0

\* A subtitle file for a fill of 21 characters, and the narration for a fill
\* of exactly 20.
C24_Witness ==
  /\ FillStep
  /\ \/ gen.out.kind = "srt" /\ Len(gen.session.steps[1].details.value) = 21
     \/ gen.out.kind = "narration"
        /\ Len(gen.session.steps[1].details.value) = 20

\* ------------------------------------------------------------- timestamps
\* Code units of the characters of a timestamp, in their order.
CharOrder == ",.0123456789:"

RECURSIVE StrLess(_, _)
StrLess(a, b) ==
  IF b = "" THEN FALSE
  ELSE IF a = "" THEN TRUE
  ELSE LET ca == IndexOf(CharOrder, charAt(a, 1), 1)
           cb == IndexOf(CharOrder, charAt(b, 1), 1)
       IN IF ca # cb THEN ca < cb
          ELSE StrLess(SubSeq(a, 2, Len(a)), SubSeq(b, 2, Len(b)))

\* The timing line of the step's cue, and the two timestamps on it.
TimingLine == Blocks(SplitOn(gen.out.value, "\n"), << >>)[2][2]

StartStamp == SubSeq(TimingLine, 1, IndexOf(TimingLine, " --> ", 1) - 1)

EndStamp ==
  SubSeq(TimingLine, IndexOf(TimingLine, " --> ", 1) + 5, Len(TimingLine))

\* stamp is HH:MM:SS,mmm with MM < 60 and SS < 60, and stands for ms.
Stands(stamp, ms) ==
  /\ Len(stamp) = 12
  /\ charAt(stamp, 3) = ":" /\ charAt(stamp, 6) = ":" /\ charAt(stamp, 9) = ","
  /\ IsNumber(SubSeq(stamp, 1, 2)) /\ IsNumber(SubSeq(stamp, 4, 5))
  /\ IsNumber(SubSeq(stamp, 7, 8)) /\ IsNumber(SubSeq(stamp, 10, 12))
  /\ ParseNumber(SubSeq(stamp, 4, 5)) < 60
  /\ ParseNumber(SubSeq(stamp, 7, 8)) < 60
  /\ ParseNumber(SubSeq(stamp, 1, 2)) * 3600000
     + ParseNumber(SubSeq(stamp, 4, 5)) * 60000
     + ParseNumber(SubSeq(stamp, 7, 8)) * 1000
     + ParseNumber(SubSeq(stamp, 10, 12)) = ms

\* C30: below 100 hours formatSrtTime(ms) is HH:MM:SS,mmm with two, two, two
\* and three digits, MM and SS below 60, the fields add up to ms, and a
\* later position has the string that compares later.
C30_FormatSrtTime ==
  (gen.out.kind = "srt" /\ Len(gen.session.steps) = 1
   /\ gen.session.steps[1].videoStartMs # undefined
   /\ gen.session.steps[1].description = "Click Save") =>
    LET startMs == gen.session.steps[1].videoStartMs
        endMs   == gen.session.steps[1].videoEndMs
    IN /\ Stands(StartStamp, startMs)
       /\ Stands(EndStamp, endMs)
       /\ startMs < endMs => StrLess(StartStamp, EndStamp)
       /\ startMs = endMs => StartStamp = EndStamp
       /\ ~StrLess(EndStamp, StartStamp)

\* A cue from 59 minutes 59.999 seconds to the last millisecond before 100
\* hours.
C30_Witness ==
  /\ gen.out.kind = "srt"
  /\ Len(gen.session.steps) = 1
  /\ gen.session.steps[1].videoStartMs = 3599999
  /\ gen.session.steps[1].videoEndMs = 359999999
  /\ StartStamp = "00:59:59,999"
  /\ EndStamp = "99:59:59,999"

\* -------------------------------------------------------------- packaging
\* C21: a generator or a write that fails does not end packaging: no
\* deliverable's failure makes packageDeliverables throw.
C21_FailureIsolated ==
  gen.failed # "none" => gen.result # "thrown"

\* C22: packaging never throws while it looks for the video or the trace;
\* the manifest it returns has the six written paths, and its video is
\* demo.webm when that exists, else the first .webm of videos/, else absent.
C22_VideoField ==
  /\ gen.stage > Len(WriteStages) + 2 => gen.result # "thrown"
  /\ gen.result = "returned" =>
       /\ \A i \in 1..Len(WriteStages) :
            gen.files[WriteStages[i]] = "/out/" \o FileName[WriteStages[i]]
       /\ gen.files.video =
            IF gen.disk.finalVideo THEN "/out/demo.webm"
            ELSE IF gen.disk.videosDir
                    /\ \E i \in 1..Len(gen.disk.videos) :
                         endsWith(gen.disk.videos[i], ".webm")
                 THEN "/out/videos/" \o
                      gen.disk.videos[
                        CHOOSE i \in 1..Len(gen.disk.videos) :
                          /\ endsWith(gen.disk.videos[i], ".webm")
                          /\ \A j \in 1..(i - 1) :
                               ~endsWith(gen.disk.videos[j], ".webm")]
                 ELSE ""

\* A manifest without video (no demo.webm, no videos/), and one whose video
\* is the first of two staged recordings.
C22_Witness ==
  /\ gen.result = "returned"
  /\ ~gen.disk.finalVideo
  /\ \/ ~gen.disk.videosDir /\ gen.files.video = ""
     \/ gen.disk.videosDir /\ gen.files.video = "/out/videos/b.webm"

\* ------------------------------------------------------ evidence numbering
\* C23: a step whose evidence is assets/step-NNN.png has NNN equal to its
\* id, and no two steps of one session have the same such file.
C23_ScreenshotNumberIsId ==
  \A s \in SessionIds :
    \A k \in 1..Len(sessions[s].steps) :
      LET step == sessions[s].steps[k] IN
        step.screenshot > 0 =>
          /\ step.screenshot = step.id
          /\ \A j \in 1..Len(sessions[s].steps) :
               sessions[s].steps[j].screenshot = step.screenshot => j = k

\* ---------------------------------------------------- the recording session
\* C27: when a call of executeWithEvidence records its step, the log that
\* grows is the log of the session the call captured when it began.
C27_StepToOwnSession ==
  [][\A c \in Calls :
       (calls[c].pc = "ewe_fn" /\ calls'[c].pc = "done") =>
         \A s \in SessionIds :
           (sessions[s].status # "gone" /\ sessions'[s].status # "gone"
            /\ Len(sessions'[s].steps) > Len(sessions[s].steps))
           => s = calls[c].session]_vars

\* ------------------------------------------------------- the current page
\* session.pages.get(session.activePageId): the page id stands for the Page
\* object, NoPage for undefined.
ActiveEntry(s) ==
  IF \E i \in 1..Len(sessions[s].pages) :
       sessions[s].pages[i] = sessions[s].activePageId
  THEN sessions[s].activePageId
  ELSE NoPage

\* C26: in every state of a running session, session.page is the registry
\* entry stored under session.activePageId.
C26_PageIsActiveEntry ==
  \A s \in SessionIds :
    sessions[s].status = "running" => sessions[s].page = ActiveEntry(s)

\* --------------------------------------------------------------- TTS merge
\* C29: in the merge, the audio of every synthesized segment is delayed by
\* the startMs of the narration segment it was synthesized from.
C29_DelayIsOwnStart ==
  gen.stage \in {"ffmpeg", "cleanup", "done"} =>
    \A k \in 1..Len(gen.filterParts) :
      /\ gen.inputs[gen.filterParts[k].input] = gen.segmentResults[k].audioPath
      /\ gen.filterParts[k].delayMs =
           gen.narrationData.segments[gen.segmentResults[k].segmentId + 1].startMs

\* ------------------------------------------------------ steps.json and back
StepsJsonFields ==
  {"id", "action", "description", "timestamp", "duration", "details",
   "evidence", "success", "error"}

\* Both objects lack the key, or both have it with the same value.
SameField(a, b, key) ==
  /\ key \in DOMAIN a <=> key \in DOMAIN b
  /\ key \in DOMAIN a => a[key] = b[key]

\* C25: the steps of a regenerated steps.json are as many as the original's,
\* in the same order, and each has the original's id, action, description,
\* timestamp, duration, details, evidence.screenshotPath, success and error.
C25_StepsRoundTrip ==
  gen.stage = "regenerated" =>
    /\ Len(gen.second) = Len(gen.first)
    /\ \A k \in 1..Len(gen.first) :
         \A field \in StepsJsonFields :
           SameField(gen.second[k], gen.first[k], field)

\* A regenerated log of two steps whose first failed after 0 ms, and one of
\* a failed step with an empty error message and an empty value.
C25_Witness ==
  /\ gen.stage = "regenerated"
  /\ \/ /\ Len(gen.second) = 2
        /\ ~gen.second[1].success
        /\ gen.second[1].duration = 0
        /\ gen.second[2].evidence = [screenshotPath |-> "/out/assets/step-002.png"]
     \/ /\ Len(gen.second) = 1
        /\ ~gen.second[1].success
        /\ "error" \in DOMAIN gen.second[1] /\ gen.second[1].error = ""
        /\ gen.second[1].details = [ref |-> "e5", value |-> ""]
        /\ gen.second[1].timestamp = "2026-01-01T12:34:56.789Z"

====
